---- MODULE Spec2Model ----
(***************************************************************************)
(* Stock ledger, sale settlement and client pages of the B-Pharma POS.     *)
(*                                                                         *)
(* Two schema designs live in the repository:                              *)
(*   - the role-based POS schema (profiles, product_batches, sales,        *)
(*     sale_items, purchase_orders, the stock triggers and the role-keyed  *)
(*     row-level-security policies), modelled by Spec, SpecSettle and      *)
(*     SpecOrders;                                                         *)
(*   - the ledger schema (products, batches, inventory_movements, sales    *)
(*     with subtotal/discount/tax/total, "full access" policies),          *)
(*     modelled by SpecLedger and SpecStock.                               *)
(* SpecSignUp models the profile trigger of both, SpecDashboard the        *)
(* dashboard's rollup, SpecForms the sign-up and reset-password forms and  *)
(* SpecRouter the route table.                                             *)
(* Money is kept in minor units (NUMERIC(10,2) value times 100).           *)
(***************************************************************************)
EXTENDS Integers, Sequences, FiniteSets, TLC

\* ------------------------------------------------------------------ bounds
MaxBatches == 2        \* product_batches rows ever created (identity values)
MaxSales == 1          \* sales rows
MaxSaleItems == 2      \* sale_items rows, committed plus pending
MaxOrders == 2         \* purchase_orders rows
MaxOrderItems == 2     \* purchase_order_items rows

MaxUuids == 4          \* ledger-schema rows ever inserted (gen_random_uuid calls)
MaxApiSales == 3       \* sales rows the API serves to the dashboard
MaxAuthCalls == 2
MaxEvents == 3                    \* sign-ins and sign-outs announced      \* calls the sign-up and reset forms make to the auth service

Sessions == {"t1", "t2"}          \* concurrent database sessions (terminals)
Products == {"p1"}                \* catalog rows referenced by batches
SaleQtys == {1, 2}                \* sale_items.quantity values tried
BatchQtys == {0, 3}               \* product_batches.quantity values written directly
OrderQtys == {2, 3}                \* purchase_order_items.quantity values tried
UnitCosts == {333}                \* purchase_order_items.unit_cost values (3.33)
UnitPrices == {500}               \* sale_items.unit_price values (5.00)
TotalAmounts == {500}             \* sales.total_amount values (5.00)
LedgerQtys == {-1, 0, 2}          \* batches.quantity values tried
MovementQtys == {-2, 2}           \* inventory_movements.quantity values tried
ItemQtys == {0, 2}                \* ledger sale_items.quantity values tried
Prices == {500}                   \* ledger sale_items.price values
Discounts == {0, 100}             \* sales.discount / sale_items.discount values
Taxes == {0, 50}                  \* sales.tax values
Subtotals == {1000}               \* ledger sales.subtotal values
Totals == {950, 1000}             \* ledger sales.total values
BatchNumbers == {"L1", "L2"}      \* batches.batch_number values
StockQtys == {0, 2}                  \* products.stock_quantity values written
MinStocks == {0, 5}                  \* products.min_stock values written
CreatedAts == {5, 24, 29, 48}        \* sales.created_at instants, hours UTC
Clocks == {25}                       \* instants at which the dashboard loads
TzOffsets == {-5, 0}                 \* browser time zone, hours east of UTC
Passwords == {"", "a", "b"}          \* what is typed into a password field
NewUserIds == {"u1", "u2"}           \* auth.users.id values of later sign-ups
Emails == {"eve", "mallory"}         \* e-mail addresses signing up

\* ------------------------------------------------------------ enumerations
NULL == "NULL"

FullNames == {NULL, "Eve"}           \* raw_user_meta_data->>'full_name'
MetaRoles == {NULL, "Super Admin", "super_admin"}  \* ...->>'role', if sent

user_role == {"Super Admin", "Stock Manager", "Cashier"}

\* CHECK (role IN (...)) of the ledger schema's public.users
ledger_user_role == {"super_admin", "stock_manager", "cashier"}

TaxRates == {0, 5}                \* settings.tax_rate values

purchase_order_status == {"Pending", "Sent", "Received", "Cancelled"}

Users == {"admin", "manager", "cashier"}

\* SQLSTATE of the last statement of a session
OK == "00000"
RlsViolation == "42501"
ForeignKeyViolation == "23503"

VARIABLES
  profiles,              \* public.profiles: user id -> row
  product_batches,       \* public.product_batches: set of rows
  batch_seq,             \* last identity value handed out for product_batches.id
  purchase_orders,       \* public.purchase_orders: sequence of rows, id = index
  purchase_order_items,  \* public.purchase_order_items: sequence of rows
  sales,                 \* public.sales: sequence of rows, id = index
  sale_items,            \* public.sale_items: committed rows, in commit order
  tx                     \* per session: the open transaction, if any

VARIABLES
  batches,               \* ledger schema, public.batches: set of rows
  inventory_movements,   \* ledger schema, public.inventory_movements
  ledger_sales,          \* ledger schema, public.sales
  ledger_sale_items,     \* ledger schema, public.sale_items
  uuid_seq               \* number of ids drawn from gen_random_uuid()

VARIABLES
  auth_users,            \* auth.users of the POS deployment: set of rows
  ledger_auth_users,     \* auth.users of the ledger deployment
  public_users           \* ledger schema, public.users: user id -> row

VARIABLES
  products               \* ledger schema, public.products: product id -> row

VARIABLES
  api_sales,             \* rows of sales as the REST API serves them
  clock,                 \* the browser's clock (new Date()), hours UTC
  tz,                    \* the browser's time zone offset
  dashboard              \* DashboardPage: component state and its fetch

VARIABLES
  signUpPage,            \* SignUpPage: component state
  resetPasswordPage,     \* ResetPasswordPage: component state
  auth_calls             \* calls made to the auth service, in order

VARIABLES
  auth,                  \* what useAuth() gives: session, role, loading
  location               \* the router's current path

VARIABLES
  settings,              \* ledger schema, public.settings: set of rows
  request                \* the last statement on profiles, users or settings

VARIABLES
  authProvider,          \* AuthProvider: component state and calls in flight
  identity,              \* the identity service: its session, its events
  loginPage              \* LoginPage: component state

posVars == <<profiles, product_batches, batch_seq, purchase_orders,
             purchase_order_items, sales, sale_items, tx>>

ledgerVars == <<batches, inventory_movements, ledger_sales, ledger_sale_items,
               uuid_seq>>

adminVars == <<settings, request>>

authVars == <<auth_users, ledger_auth_users, public_users, adminVars>>

dashVars == <<api_sales, clock, tz, dashboard>>

formVars == <<signUpPage, resetPasswordPage, auth_calls>>

appVars == <<authProvider, identity, loginPage>>

routerVars == <<auth, location, appVars>>

vars == <<posVars, ledgerVars, authVars, products, dashVars, formVars,
          routerVars>>

\* what the statements of the POS schema leave alone, and those of the ledger
\* schema
notPos == <<ledgerVars, authVars, products, dashVars, formVars, routerVars>>

notLedger == <<posVars, authVars, products, dashVars, formVars, routerVars>>

\* the database, which the pages' own steps leave alone
database == <<posVars, ledgerVars, authVars, products>>

\* ------------------------------------------------------------------ helpers
RECURSIVE SumSeq(_)
SumSeq(s) == IF s = <<>> THEN 0 ELSE Head(s) + SumSeq(Tail(s))

Idle == [state |-> "idle", user |-> NULL, items |-> <<>>, upd |-> {},
         sqlstate |-> OK]

\* get_my_role(): SELECT role FROM profiles WHERE id = auth.uid()
get_my_role(u) == profiles[u].role

CanManage(u) == get_my_role(u) \in {"Super Admin", "Stock Manager"}

CanSell(u) == get_my_role(u) \in {"Super Admin", "Stock Manager", "Cashier"}

TypeOK == \A u \in DOMAIN profiles : profiles[u].role \in user_role

BatchIds == {r.id : r \in product_batches}

BatchRow(b) == CHOOSE r \in product_batches : r.id = b

\* rows of product_batches a session has updated and not yet committed
LockedBy(s) == {w.id : w \in tx[s].upd}

LockedByOther(s, b) == \E o \in Sessions \ {s} : b \in LockedBy(o)

Locked(b) == \E o \in Sessions : b \in LockedBy(o)

\* the row version an UPDATE of session s works on: its own pending version,
\* else the latest committed one (READ COMMITTED re-reads after a lock wait)
VisibleQty(s, b) ==
  IF b \in LockedBy(s)
  THEN (CHOOSE w \in tx[s].upd : w.id = b).quantity
  ELSE BatchRow(b).quantity

\* item.unit_cost * 1.25 stored into NUMERIC(10, 2): rounded to the cent, half
\* away from zero (unit costs here are not negative)
Markup(unit_cost) == (unit_cost * 125 + 50) \div 100

Roles0 == [u \in Users |->
             [full_name |-> NULL, avatar_url |-> NULL,
              role |-> CASE u = "admin" -> "Super Admin"
                         [] u = "manager" -> "Stock Manager"
                         [] OTHER -> "Cashier"]]

\* the same three users in the ledger schema's public.users
LedgerRoles0 == [u \in Users |->
                   [email |-> u, full_name |-> NULL,
                    role |-> CASE u = "admin" -> "super_admin"
                               [] u = "manager" -> "stock_manager"
                               [] OTHER -> "cashier"]]

\* a user created through the sign-up form: no metadata keys
NoMetadata == [full_name |-> NULL, avatar_url |-> NULL, role |-> NULL]

\* auth.users holding the three users; the e-mail address stands for itself
AuthUsers0 == {[id |-> u, email |-> u, raw_user_meta_data |-> NoMetadata] :
                 u \in Users}

\* the catalog rows as INSERT leaves them without the stock columns:
\* stock_quantity and min_stock DEFAULT 0
Products0 == [p \in Products |-> [stock_quantity |-> 0, min_stock |-> 0]]

\* total_amount of the sale with id i: 10.00, 25.50, 7.25, then others
TotalAmountOf(i) ==
  CASE i = 1 -> 1000 [] i = 2 -> 2550 [] i = 3 -> 725 [] OTHER -> 100 * i + 1

\* a JavaScript null
JsNull == [null |-> TRUE]

Queries == {"sales", "products", "orders", "recentSales"}

\* DashboardPage before it is mounted: the useState initial values
Unmounted ==
  [pc |-> "unmounted", stats |-> JsNull, recentSales |-> JsNull,
   loading |-> TRUE, error |-> NULL, today |-> 0, tomorrow |-> 0,
   res |-> [q \in Queries |-> [state |-> "pending"]]]

\* SignUpPage and ResetPasswordPage as mounted: the useState initial values
FormInitial ==
  [email |-> "", password |-> "", confirmPassword |-> "", loading |-> FALSE,
   error |-> NULL, success |-> NULL]

FormsInitial ==
  /\ signUpPage = FormInitial
  /\ resetPasswordPage = FormInitial
  /\ auth_calls = <<>>

\* AuthProvider once mounted: the useState initial values, getSession()
\* called by the first effect, no fetchProfile started by the second (user
\* is null)
Mounted ==
  [session |-> NULL, user |-> NULL, profile |-> JsNull,
   loadingInitial |-> TRUE, loadingProfile |-> FALSE,
   getSession |-> [state |-> "called", session |-> NULL], effect |-> FALSE, fetches |-> {},
   fetch_seq |-> 0]

\* the identity service with nobody signed in and nothing to announce
SignedOut == [session |-> NULL, events |-> <<>>, announced |-> 0]

\* LoginPage as mounted: the useState initial values
LoginInitial ==
  [email |-> "", password |-> "", loading |-> FALSE, error |-> NULL,
   submissions |-> 0]

\* the application as it starts: AuthProvider's useState initial values
\* (session null, profile null, loadingInitial true), the browser at "/"
AppStart ==
  /\ auth = [session |-> NULL, role |-> NULL, loading |-> TRUE]
  /\ location = "/"
  /\ authProvider = Mounted
  /\ identity = SignedOut
  /\ loginPage = LoginInitial

\* no page of the client is in use
NoDashboard ==
  /\ api_sales = {}
  /\ clock = 0
  /\ tz = 0
  /\ dashboard = Unmounted
  /\ FormsInitial
  /\ AppStart

\* INSERT INTO public.settings (id, company_name) VALUES (..., 'B-Pharma
\* POS'): the single row, tax_rate DEFAULT 0
Settings0 == {[id |-> "s1", company_name |-> "B-Pharma POS", tax_rate |-> 0]}

\* no statement made yet
NoRequest == [uid |-> NULL, op |-> NULL, sqlstate |-> OK, rows |-> 0]

SeededUsers ==
  /\ auth_users = AuthUsers0
  /\ ledger_auth_users = AuthUsers0
  /\ public_users = LedgerRoles0
  /\ settings = Settings0
  /\ request = NoRequest

\* the users and the catalog every deployment starts with
Seeded ==
  /\ products = Products0
  /\ SeededUsers

LedgerEmpty ==
  /\ batches = {}
  /\ inventory_movements = {}
  /\ ledger_sales = {}
  /\ ledger_sale_items = {}
  /\ uuid_seq = 0

PosEmpty ==
  /\ profiles = Roles0
  /\ product_batches = {}
  /\ batch_seq = 0
  /\ purchase_orders = <<>>
  /\ purchase_order_items = <<>>
  /\ sales = <<>>
  /\ sale_items = <<>>
  /\ tx = [s \in Sessions |-> Idle]

\* The ledger schema right after its migration.
InitLedger == PosEmpty /\ LedgerEmpty /\ Seeded /\ NoDashboard

\* The database right after the migration: three signed-up users, no rows.
InitOrders ==
  /\ profiles = Roles0
  /\ product_batches = {}
  /\ batch_seq = 0
  /\ purchase_orders = <<>>
  /\ purchase_order_items = <<>>
  /\ sales = <<>>
  /\ sale_items = <<>>
  /\ tx = [s \in Sessions |-> Idle]
  /\ LedgerEmpty
  /\ Seeded
  /\ NoDashboard

\* A store with sales on record, a catalog with stock figures and perhaps a
\* pending order, and the dashboard not yet opened.
InitDashboard ==
  /\ profiles = Roles0
  /\ product_batches = {}
  /\ batch_seq = 0
  /\ purchase_orders \in
       {<<>>, <<[status |-> "Pending", created_by |-> "manager"]>>}
  /\ purchase_order_items = <<>>
  /\ sales = <<>>
  /\ sale_items = <<>>
  /\ tx = [s \in Sessions |-> Idle]
  /\ LedgerEmpty
  /\ SeededUsers
  /\ products \in [Products -> [stock_quantity : StockQtys,
                                min_stock : MinStocks]]
  /\ \E S \in SUBSET (1..MaxApiSales) : \E at \in [S -> CreatedAts] :
       api_sales = {[id |-> i, created_at |-> at[i],
                     total_amount |-> TotalAmountOf(i)] : i \in S}
  /\ clock \in Clocks
  /\ tz \in TzOffsets
  /\ dashboard = Unmounted
  /\ FormsInitial
  /\ AppStart

\* A store in business: one purchase order has been placed and sent, nothing
\* has been received or sold yet.
Init ==
  /\ profiles = Roles0
  /\ product_batches = {}
  /\ batch_seq = 0
  /\ purchase_orders = <<[status |-> "Sent", created_by |-> "manager"]>>
  /\ \E p \in Products, q \in OrderQtys, c \in UnitCosts :
       purchase_order_items = <<[purchase_order_id |-> 1, product_id |-> p,
                                 quantity |-> q, unit_cost |-> c]>>
  /\ sales = <<>>
  /\ sale_items = <<>>
  /\ tx = [s \in Sessions |-> Idle]
  /\ LedgerEmpty
  /\ Seeded
  /\ NoDashboard

\* The same store after the order line has been received into batch 1 (by
\* update_stock_from_purchase) and before any sale.
InitSettle ==
  /\ profiles = Roles0
  /\ purchase_orders = <<[status |-> "Sent", created_by |-> "manager"]>>
  /\ \E p \in Products, q \in OrderQtys, c \in UnitCosts :
       /\ purchase_order_items = <<[purchase_order_id |-> 1, product_id |-> p,
                                    quantity |-> q, unit_cost |-> c]>>
       /\ product_batches = {[id |-> 1, product_id |-> p, cost_price |-> c,
                              selling_price |-> Markup(c),
                              quantity |-> q]}
  /\ batch_seq = 1
  /\ sales = <<>>
  /\ sale_items = <<>>
  /\ tx = [s \in Sessions |-> Idle]
  /\ LedgerEmpty
  /\ Seeded
  /\ NoDashboard

\* ------------------------------------------------- sale settlement (POS)
\* A session opens a transaction as user u (one API request, or an explicit
\* BEGIN).
Begin(s, u) ==
  /\ tx[s].state = "idle"
  /\ tx' = [tx EXCEPT ![s] = [Idle EXCEPT !.state = "active", !.user = u]]
  /\ UNCHANGED <<profiles, product_batches, batch_seq, purchase_orders,
                 purchase_order_items, sales, sale_items, notPos>>

\* INSERT INTO sales (cashier_id, total_amount): a single-statement
\* transaction.  The INSERT policy checks the caller's role only; cashier_id
\* and total_amount are whatever the caller sends.
InsertSale(u, cashier, total) ==
  /\ Len(sales) < MaxSales
  /\ CanSell(u)
  /\ sales' = Append(sales, [cashier_id |-> cashier, total_amount |-> total])
  /\ UNCHANGED <<profiles, product_batches, batch_seq, purchase_orders,
                 purchase_order_items, sale_items, tx, notPos>>

\* update_stock_from_sale(), run by after_sale_item_insert FOR EACH ROW with
\* the rights of the inserting user: the UPDATE reaches the batch row only
\* when a product_batches policy for UPDATE admits the caller (the FOR ALL
\* policy of Stock Managers and Admins); otherwise it updates zero rows and
\* raises nothing.  There is no comparison of quantity with NEW.quantity.
update_stock_from_sale(s, u, b, n) ==
  IF CanManage(u)
  THEN {w \in tx[s].upd : w.id # b} \cup {[id |-> b, quantity |-> VisibleQty(s, b) - n]}
  ELSE tx[s].upd

RECURSIVE PendingRows(_)
PendingRows(S) ==
  IF S = {} THEN 0
  ELSE LET s == CHOOSE x \in S : TRUE
       IN Len(tx[s].items) + PendingRows(S \ {s})

\* INSERT INTO sale_items (sale_id, product_batch_id, quantity, unit_price)
\* inside the open transaction of session s, trigger included.
InsertSaleItem(s, sale_id, b, n, price) ==
  LET u == tx[s].user IN
  /\ tx[s].state = "active"
  /\ Len(sale_items) + PendingRows(Sessions) < MaxSaleItems
  \* the trigger's UPDATE waits while another transaction holds the row
  /\ ~(CanManage(u) /\ LockedByOther(s, b))
  /\ IF ~CanSell(u)
     THEN tx' = [tx EXCEPT ![s] = [Idle EXCEPT !.sqlstate = RlsViolation]]
     ELSE IF sale_id \notin DOMAIN sales \/ b \notin BatchIds
     THEN tx' = [tx EXCEPT ![s] = [Idle EXCEPT !.sqlstate = ForeignKeyViolation]]
     ELSE tx' = [tx EXCEPT ![s].items = Append(@, [sale_id |-> sale_id,
                                                    product_batch_id |-> b,
                                                    quantity |-> n,
                                                    unit_price |-> price]),
                           ![s].upd = update_stock_from_sale(s, u, b, n),
                           ![s].sqlstate = OK]
  /\ UNCHANGED <<profiles, product_batches, batch_seq, purchase_orders,
                 purchase_order_items, sales, sale_items, notPos>>

\* COMMIT: the inserted sale_items rows and the trigger's batch updates
\* become visible together and the row locks are released.
Commit(s) ==
  /\ tx[s].state = "active"
  /\ sale_items' = sale_items \o tx[s].items
  /\ product_batches' =
       {IF r.id \in LockedBy(s)
        THEN [r EXCEPT !.quantity = VisibleQty(s, r.id)]
        ELSE r : r \in product_batches}
  /\ tx' = [tx EXCEPT ![s] = Idle]
  /\ UNCHANGED <<profiles, batch_seq, purchase_orders, purchase_order_items,
                 sales, notPos>>

\* ROLLBACK (client abort, deadlock victim, lost connection): nothing the
\* transaction did survives.
Rollback(s) ==
  /\ tx[s].state = "active"
  /\ tx' = [tx EXCEPT ![s] = Idle]
  /\ UNCHANGED <<profiles, product_batches, batch_seq, purchase_orders,
                 purchase_order_items, sales, sale_items, notPos>>

\* ------------------------------------------- direct product_batches writes
\* INSERT INTO product_batches by a role the FOR ALL policy admits.
InsertBatch(u, p, q, cost) ==
  /\ CanManage(u)
  /\ batch_seq < MaxBatches
  /\ batch_seq' = batch_seq + 1
  /\ product_batches' = product_batches \cup
       {[id |-> batch_seq + 1, product_id |-> p, cost_price |-> cost,
         selling_price |-> Markup(cost), quantity |-> q]}
  /\ UNCHANGED <<profiles, purchase_orders, purchase_order_items, sales,
                 sale_items, tx, notPos>>

\* UPDATE product_batches SET quantity = q WHERE id = b.
UpdateBatch(u, b, q) ==
  /\ CanManage(u)
  /\ b \in BatchIds
  /\ ~Locked(b)
  /\ BatchRow(b).quantity # q
  /\ product_batches' = {IF r.id = b THEN [r EXCEPT !.quantity = q] ELSE r :
                           r \in product_batches}
  /\ UNCHANGED <<profiles, batch_seq, purchase_orders, purchase_order_items,
                 sales, sale_items, tx, notPos>>

Referenced(b) ==
  \/ \E i \in DOMAIN sale_items : sale_items[i].product_batch_id = b
  \/ \E s \in Sessions : \E i \in DOMAIN tx[s].items :
        tx[s].items[i].product_batch_id = b

\* DELETE FROM product_batches WHERE id = b; sale_items.product_batch_id
\* references the row without ON DELETE, so a sold batch cannot go.
DeleteBatch(u, b) ==
  /\ CanManage(u)
  /\ b \in BatchIds
  /\ ~Locked(b)
  /\ ~Referenced(b)
  /\ product_batches' = {r \in product_batches : r.id # b}
  /\ UNCHANGED <<profiles, batch_seq, purchase_orders, purchase_order_items,
                 sales, sale_items, tx, notPos>>

\* ---------------------------------------------------------- purchase orders
\* INSERT INTO purchase_orders; status defaults to 'Pending' but is an
\* ordinary column of the enum type.
InsertPurchaseOrder(u, st) ==
  /\ CanManage(u)
  /\ Len(purchase_orders) < MaxOrders
  /\ purchase_orders' = Append(purchase_orders, [status |-> st, created_by |-> u])
  /\ UNCHANGED <<profiles, product_batches, batch_seq, purchase_order_items,
                 sales, sale_items, tx, notPos>>

\* UPDATE purchase_orders SET status = st WHERE id = po.
UpdatePurchaseOrder(u, po, st) ==
  /\ CanManage(u)
  /\ po \in DOMAIN purchase_orders
  /\ purchase_orders[po].status # st
  /\ purchase_orders' = [purchase_orders EXCEPT ![po].status = st]
  /\ UNCHANGED <<profiles, product_batches, batch_seq, purchase_order_items,
                 sales, sale_items, tx, notPos>>

\* INSERT INTO purchase_order_items.
InsertPurchaseOrderItem(u, po, p, q, cost) ==
  /\ CanManage(u)
  /\ po \in DOMAIN purchase_orders
  /\ Len(purchase_order_items) < MaxOrderItems
  /\ purchase_order_items' = Append(purchase_order_items,
       [purchase_order_id |-> po, product_id |-> p, quantity |-> q,
        unit_cost |-> cost])
  /\ UNCHANGED <<profiles, product_batches, batch_seq, purchase_orders,
                 sales, sale_items, tx, notPos>>

\* update_stock_from_purchase(p_purchase_order_item_id): reads the item and
\* inserts a new batch from it.  It neither reads nor writes the order's
\* status and keeps no record of the item having been received.
update_stock_from_purchase(u, item_id) ==
  /\ CanManage(u)
  /\ item_id \in DOMAIN purchase_order_items
  /\ batch_seq < MaxBatches
  /\ LET item == purchase_order_items[item_id] IN
       /\ batch_seq' = batch_seq + 1
       /\ product_batches' = product_batches \cup
            {[id |-> batch_seq + 1, product_id |-> item.product_id,
              cost_price |-> item.unit_cost,
              selling_price |-> Markup(item.unit_cost),
              quantity |-> item.quantity]}
  /\ UNCHANGED <<profiles, purchase_orders, purchase_order_items, sales,
                 sale_items, tx, notPos>>

\* ------------------------------------------------------- ledger schema
\* Every table but users and settings carries one policy,
\* "Allow authenticated users full access" FOR ALL USING
\* (auth.role() = 'authenticated'): any signed-in user may insert, update
\* and delete any row.  The schema has no trigger besides the profile one.
auth_role(u) == IF u \in Users THEN "authenticated" ELSE "anon"

FullAccess(u) == auth_role(u) = "authenticated"

change_types == {"sale", "purchase", "adjustment", "return", "damage"}

\* sale_items.total GENERATED ALWAYS AS (quantity * price - discount) STORED
ItemTotal(quantity, price, discount) == quantity * price - discount

\* INSERT INTO batches; CHECK (quantity >= 0), UNIQUE (product_id, batch_number)
LedgerInsertBatch(u, p, bn, q) ==
  /\ FullAccess(u)
  /\ uuid_seq < MaxUuids
  /\ q >= 0
  /\ ~\E r \in batches : r.product_id = p /\ r.batch_number = bn
  /\ uuid_seq' = uuid_seq + 1
  /\ batches' = batches \cup {[id |-> uuid_seq + 1, product_id |-> p,
                               batch_number |-> bn, quantity |-> q]}
  /\ UNCHANGED <<inventory_movements, ledger_sales, ledger_sale_items, notLedger>>

\* UPDATE batches SET quantity = q WHERE id = b; the CHECK refuses q < 0
LedgerUpdateBatch(u, b, q) ==
  /\ FullAccess(u)
  /\ q >= 0
  /\ \E r \in batches :
       /\ r.id = b
       /\ r.quantity # q
       /\ batches' = (batches \ {r}) \cup {[r EXCEPT !.quantity = q]}
  /\ UNCHANGED <<inventory_movements, ledger_sales, ledger_sale_items, uuid_seq,
                 notLedger>>

\* DELETE FROM batches WHERE id = b
LedgerDeleteBatch(u, b) ==
  /\ FullAccess(u)
  /\ \E r \in batches : r.id = b /\ batches' = batches \ {r}
  /\ UNCHANGED <<inventory_movements, ledger_sales, ledger_sale_items, uuid_seq,
                 notLedger>>

\* INSERT INTO inventory_movements; CHECK (change_type IN (...))
InsertMovement(u, p, ct, q) ==
  /\ FullAccess(u)
  /\ uuid_seq < MaxUuids
  /\ ct \in change_types
  /\ uuid_seq' = uuid_seq + 1
  /\ inventory_movements' = inventory_movements \cup
       {[id |-> uuid_seq + 1, product_id |-> p, change_type |-> ct,
         quantity |-> q]}
  /\ UNCHANGED <<batches, ledger_sales, ledger_sale_items, notLedger>>

\* UPDATE inventory_movements SET quantity = q WHERE id = m
UpdateMovement(u, m, q) ==
  /\ FullAccess(u)
  /\ \E r \in inventory_movements :
       /\ r.id = m
       /\ r.quantity # q
       /\ inventory_movements' =
            (inventory_movements \ {r}) \cup {[r EXCEPT !.quantity = q]}
  /\ UNCHANGED <<batches, ledger_sales, ledger_sale_items, uuid_seq, notLedger>>

\* DELETE FROM inventory_movements WHERE id = m
DeleteMovement(u, m) ==
  /\ FullAccess(u)
  /\ \E r \in inventory_movements :
       r.id = m /\ inventory_movements' = inventory_movements \ {r}
  /\ UNCHANGED <<batches, ledger_sales, ledger_sale_items, uuid_seq, notLedger>>

\* INSERT INTO sales (subtotal, discount, tax, total, ...); each amount has
\* its own CHECK (>= 0) and nothing relates total to the other columns or to
\* the sale's items.
LedgerInsertSale(u, subtotal, discount, tax, total) ==
  /\ FullAccess(u)
  /\ uuid_seq < MaxUuids
  /\ subtotal >= 0 /\ discount >= 0 /\ tax >= 0 /\ total >= 0
  /\ uuid_seq' = uuid_seq + 1
  /\ ledger_sales' = ledger_sales \cup
       {[id |-> uuid_seq + 1, subtotal |-> subtotal, discount |-> discount,
         tax |-> tax, total |-> total]}
  /\ UNCHANGED <<batches, inventory_movements, ledger_sale_items, notLedger>>

\* UPDATE sales SET total = t WHERE id = sale_id
LedgerUpdateSale(u, sale_id, t) ==
  /\ FullAccess(u)
  /\ t >= 0
  /\ \E r \in ledger_sales :
       /\ r.id = sale_id
       /\ r.total # t
       /\ ledger_sales' = (ledger_sales \ {r}) \cup {[r EXCEPT !.total = t]}
  /\ UNCHANGED <<batches, inventory_movements, ledger_sale_items, uuid_seq,
                 notLedger>>

\* DELETE FROM sales WHERE id = sale_id; sale_items go with it (ON DELETE
\* CASCADE)
LedgerDeleteSale(u, sale_id) ==
  /\ FullAccess(u)
  /\ \E r \in ledger_sales : r.id = sale_id /\ ledger_sales' = ledger_sales \ {r}
  /\ ledger_sale_items' = {i \in ledger_sale_items : i.sale_id # sale_id}
  /\ UNCHANGED <<batches, inventory_movements, uuid_seq, notLedger>>

\* INSERT INTO sale_items (sale_id, product_id, quantity, price, discount);
\* CHECK (quantity > 0), CHECK (price >= 0), CHECK (discount >= 0),
\* UNIQUE (sale_id, product_id), total generated.  No trigger fires.
LedgerInsertSaleItem(u, sale_id, p, q, price, discount) ==
  /\ FullAccess(u)
  /\ uuid_seq < MaxUuids
  /\ \E r \in ledger_sales : r.id = sale_id
  /\ q > 0 /\ price >= 0 /\ discount >= 0
  /\ ~\E i \in ledger_sale_items : i.sale_id = sale_id /\ i.product_id = p
  /\ uuid_seq' = uuid_seq + 1
  /\ ledger_sale_items' = ledger_sale_items \cup
       {[id |-> uuid_seq + 1, sale_id |-> sale_id, product_id |-> p,
         quantity |-> q, price |-> price, discount |-> discount,
         total |-> ItemTotal(q, price, discount)]}
  /\ UNCHANGED <<batches, inventory_movements, ledger_sales, notLedger>>

\* DELETE FROM sale_items WHERE id = item_id
LedgerDeleteSaleItem(u, item_id) ==
  /\ FullAccess(u)
  /\ \E i \in ledger_sale_items :
       i.id = item_id /\ ledger_sale_items' = ledger_sale_items \ {i}
  /\ UNCHANGED <<batches, inventory_movements, ledger_sales, uuid_seq, notLedger>>

\* UPDATE products SET stock_quantity = sq, min_stock = ms WHERE id = p;
\* CHECK (stock_quantity >= 0), CHECK (min_stock >= 0).  No trigger of the
\* schema reads or writes the column.
UpdateProduct(u, p, sq, ms) ==
  /\ FullAccess(u)
  /\ sq >= 0 /\ ms >= 0
  /\ products' = [products EXCEPT ![p] = [stock_quantity |-> sq,
                                          min_stock |-> ms]]
  /\ products' # products
  /\ UNCHANGED <<posVars, ledgerVars, authVars, dashVars, formVars,
                 routerVars>>


\* ------------------------------------------------- row-level policies
InfiniteRecursion == "42P17"

\* SELECT * FROM sales with no policy on cashier_id: every row to everyone
SelectSalesUnfiltered(u) == DOMAIN sales

\* SELECT * FROM sales as user u: the rows either SELECT policy admits,
\* "Users can view their own sales" (cashier_id = auth.uid() OR get_my_role()
\* IN ('Super Admin', 'Stock Manager')) or "Admins and Managers can view all
\* sales data" (get_my_role() IN ('Super Admin', 'Stock Manager'))
SelectSales(u) ==
  {i \in DOMAIN sales :
     \/ sales[i].cashier_id = u \/ CanManage(u)
     \/ CanManage(u)}

\* UPDATE profiles SET role = r WHERE id = t, as user u.  "Users can update
\* their own profile" (auth.uid() = id) and "Super Admins can manage all
\* profiles" (get_my_role() = 'Super Admin') admit the row; neither names a
\* column, and the new row is checked against the same expressions, which
\* do not read role.
UpdateProfile(u, t, r) ==
  LET admitted == t = u \/ get_my_role(u) = "Super Admin" IN
  /\ profiles' = IF admitted THEN [profiles EXCEPT ![t].role = r]
                 ELSE profiles
  /\ request' = [uid |-> u, op |-> "UPDATE profiles", sqlstate |-> OK,
                 rows |-> IF admitted THEN 1 ELSE 0]
  /\ UNCHANGED <<product_batches, batch_seq, purchase_orders,
                 purchase_order_items, sales, sale_items, tx, ledgerVars,
                 auth_users, ledger_auth_users, public_users, settings,
                 products, dashVars, formVars, routerVars>>

\* (SELECT role FROM public.users WHERE id = auth.uid()) inside a policy.
\* The subquery is itself subject to the policies of public.users, and
\* "Allow super admins full access to users" holds the same subquery on
\* public.users: expanding the policies never ends and PostgreSQL refuses
\* the statement (infinite recursion detected in policy for relation
\* "users").
users_role(u) == [sqlstate |-> InfiniteRecursion, role |-> NULL]

\* UPDATE users SET role = r WHERE id = t, as user u: both policies of
\* public.users are FOR ALL, so the one holding the subquery applies
UpdateUser(u, t, r) ==
  LET lookup == users_role(u)
      admitted == /\ lookup.sqlstate = OK
                  /\ (lookup.role = "super_admin" \/ t = u) IN
  /\ public_users' = IF admitted THEN [public_users EXCEPT ![t].role = r]
                     ELSE public_users
  /\ request' = [uid |-> u, op |-> "UPDATE users",
                 sqlstate |-> lookup.sqlstate,
                 rows |-> IF admitted THEN 1 ELSE 0]
  /\ UNCHANGED <<posVars, ledgerVars, auth_users, ledger_auth_users,
                 settings, products, dashVars, formVars, routerVars>>

\* SELECT * FROM settings: "Allow authenticated users to read settings"
SelectSettings(u) == IF auth_role(u) = "authenticated" THEN settings ELSE {}

\* an INSERT that a policy admits for every authenticated user
InsertSettingsPermitted(u) ==
  /\ FullAccess(u)
  /\ settings' = settings \cup {[id |-> "s2", company_name |-> NULL,
                                 tax_rate |-> 0]}
  /\ request' = [uid |-> u, op |-> "INSERT settings", sqlstate |-> OK,
                 rows |-> 1]
  /\ UNCHANGED <<posVars, ledgerVars, auth_users, ledger_auth_users,
                 public_users, products, dashVars, formVars, routerVars>>

\* INSERT INTO settings DEFAULT VALUES, as user u: row level security is
\* enabled and no policy of the table is FOR INSERT (or FOR ALL)
InsertSettings(u) ==
  /\ settings' = settings
  /\ request' = [uid |-> u, op |-> "INSERT settings",
                 sqlstate |-> RlsViolation, rows |-> 0]
  /\ UNCHANGED <<posVars, ledgerVars, auth_users, ledger_auth_users,
                 public_users, products, dashVars, formVars, routerVars>>

\* DELETE FROM settings, as user u: no policy is FOR DELETE, no row is
\* within reach, the statement deletes nothing
DeleteSettings(u) ==
  /\ settings' = settings
  /\ request' = [uid |-> u, op |-> "DELETE settings", sqlstate |-> OK,
                 rows |-> 0]
  /\ UNCHANGED <<posVars, ledgerVars, auth_users, ledger_auth_users,
                 public_users, products, dashVars, formVars, routerVars>>

\* UPDATE settings SET tax_rate = rate, as user u: "Allow super admins to
\* update settings" USING ((SELECT role FROM public.users WHERE id =
\* auth.uid()) = 'super_admin'); CHECK (tax_rate >= 0)
UpdateSettings(u, rate) ==
  LET lookup == users_role(u)
      admitted == lookup.sqlstate = OK /\ lookup.role = "super_admin" IN
  /\ rate >= 0
  /\ settings' = IF admitted
                 THEN {[r EXCEPT !.tax_rate = rate] : r \in settings}
                 ELSE settings
  /\ request' = [uid |-> u, op |-> "UPDATE settings",
                 sqlstate |-> lookup.sqlstate,
                 rows |-> IF admitted THEN Cardinality(settings) ELSE 0]
  /\ UNCHANGED <<posVars, ledgerVars, auth_users, ledger_auth_users,
                 public_users, products, dashVars, formVars, routerVars>>

\* ----------------------------------------------------------- dashboard
\* new Date() with setHours(0, 0, 0, 0): the last local midnight at or
\* before instant t, as an instant (toISOString keeps the instant)
LocalMidnight(t, off) == ((t + off) \div 24) * 24 - off

\* .limit(5) of the recent-sales query
RecentLimit == 5

FailedToFetch == "Failed to fetch dashboard data. Please check console for details."

\* a sales query whose upper bound is inclusive
SalesQueryInclusive(today, tomorrow) ==
  [state |-> "ok",
   data |-> {r \in api_sales :
               r.created_at >= today /\ r.created_at <= tomorrow}]

\* from('sales').select('total_amount').gte('created_at', today)
\* .lt('created_at', tomorrow); a row stands for its place in the array
SalesQuery(today, tomorrow) ==
  [state |-> "ok",
   data |-> {r \in api_sales :
               r.created_at >= today /\ r.created_at < tomorrow}]

\* from('products').select('id', {count: 'exact'}).lte('stock_quantity', 0)
ProductsQuery ==
  [state |-> "ok",
   count |-> Cardinality({p \in Products : products[p].stock_quantity <= 0})]

\* from('purchase_orders').select('*', {count, head}).eq('status', 'Pending')
OrdersQuery ==
  [state |-> "ok",
   count |-> Cardinality({po \in DOMAIN purchase_orders :
                            purchase_orders[po].status = "Pending"})]

\* .order('created_at', {ascending: false}); rows of equal created_at come
\* in an order of the server's choosing
RECURSIVE NewestFirst(_)
NewestFirst(rows) ==
  IF rows = {} THEN <<>>
  ELSE LET r == CHOOSE x \in rows :
                  \A y \in rows : x.created_at >= y.created_at
       IN <<r>> \o NewestFirst(rows \ {r})

\* from('sales').select(...).order('created_at', desc).limit(5)
RecentSalesQuery ==
  LET all == NewestFirst(api_sales) IN
  [state |-> "ok",
   data |-> SubSeq(all, 1, IF Len(all) < RecentLimit THEN Len(all)
                           ELSE RecentLimit)]

QueryResult(q, today, tomorrow) ==
  CASE q = "sales" -> SalesQuery(today, tomorrow)
    [] q = "products" -> ProductsQuery
    [] q = "orders" -> OrdersQuery
    [] OTHER -> RecentSalesQuery

\* useEffect(..., []) on mount: fetchDashboardData starts, sets loading and
\* clears error, computes the day's bounds and issues the four queries
DashMount ==
  /\ dashboard.pc = "unmounted"
  /\ dashboard' = [dashboard EXCEPT
                     !.pc = "fetching", !.loading = TRUE, !.error = NULL,
                     !.today = LocalMidnight(clock, tz),
                     !.tomorrow = LocalMidnight(clock, tz) + 24]
  /\ UNCHANGED <<database, routerVars, api_sales, clock, tz, formVars>>

\* one of the four requests returns, with rows or with an error object
QueryReturns(q, ok) ==
  /\ dashboard.pc = "fetching"
  /\ dashboard.res[q].state = "pending"
  /\ dashboard' = [dashboard EXCEPT !.res[q] =
                     IF ok
                     THEN QueryResult(q, dashboard.today, dashboard.tomorrow)
                     ELSE [state |-> "error"]]
  /\ UNCHANGED <<database, routerVars, api_sales, clock, tz, formVars>>

RECURSIVE SumTotalAmount(_)
SumTotalAmount(rows) ==
  IF rows = {} THEN 0
  ELSE LET r == CHOOSE x \in rows : TRUE
       IN r.total_amount + SumTotalAmount(rows \ {r})

\* salesRes.data?.reduce((sum, sale) => sum + sale.total_amount, 0) || 0;
\* data is null in an error result.  Amounts are in cents, which is what the
\* page shows of the floating-point sum.
TotalSales(r) == IF r.state = "ok" THEN SumTotalAmount(r.data) ELSE 0

\* res.count || 0; count is null in an error result
CountOrZero(r) == IF r.state = "ok" THEN r.count ELSE 0

\* recentSalesRes.data as Sale[]
DataOrNull(r) == IF r.state = "ok" THEN [rows |-> r.data] ELSE JsNull

\* a check that looks at the first result only
SalesError(res) == res["sales"].state = "error"

\* salesRes.error || productsRes.error || ordersRes.error ||
\* recentSalesRes.error
AnyError(res) == \E q \in Queries : res[q].state = "error"

\* Promise.all has resolved: throw on any error (caught: setError), else
\* setStats and setRecentSales; finally setLoading(false)
DashSettle ==
  /\ dashboard.pc = "fetching"
  /\ \A q \in Queries : dashboard.res[q].state # "pending"
  /\ dashboard' =
       IF AnyError(dashboard.res)
       THEN [dashboard EXCEPT !.pc = "done", !.error = FailedToFetch,
                              !.loading = FALSE]
       ELSE [dashboard EXCEPT
               !.pc = "done",
               !.stats = [totalSalesToday |-> TotalSales(dashboard.res["sales"]),
                          lowStockItems |->
                            CountOrZero(dashboard.res["products"]),
                          pendingOrders |->
                            CountOrZero(dashboard.res["orders"])],
               !.recentSales = DataOrNull(dashboard.res["recentSales"]),
               !.loading = FALSE]
  /\ UNCHANGED <<database, routerVars, api_sales, clock, tz, formVars>>

\* the user leaves the page: the component and any fetch in flight are gone
DashUnmount ==
  /\ dashboard.pc # "unmounted"
  /\ dashboard' = Unmounted
  /\ UNCHANGED <<database, routerVars, api_sales, clock, tz, formVars>>

\* -------------------------------------------------------------- router
\* the <Route path=... element=...> children of ProtectedRoute
Pages ==
  [p \in {"/", "/pos", "/sales", "/inventory", "/products", "/categories",
          "/suppliers", "/purchase-orders", "/users", "/settings"} |->
     CASE p = "/" -> "DashboardPage"
       [] p = "/pos" -> "PosPage"
       [] p = "/sales" -> "SalesPage"
       [] p = "/inventory" -> "InventoryPage"
       [] p = "/products" -> "ProductsPage"
       [] p = "/categories" -> "CategoriesPage"
       [] p = "/suppliers" -> "SuppliersPage"
       [] p = "/purchase-orders" -> "PurchaseOrdersPage"
       [] p = "/users" -> "UsersPage"
       [] OTHER -> "SettingsPage"]

\* paths a user may type or follow, one of them matching no route
Paths == DOMAIN Pages \cup {"/login", "/signup", "/forgot-password",
                            "/reset-password", "/nowhere"}

Page(name) == [kind |-> "page", to |-> name]

Redirect(path) == [kind |-> "navigate", to |-> path]

\* a ProtectedRoute that does not wait for the session to be resolved
ProtectedRouteIgnoresLoading(path, a) ==
  IF a.session = NULL THEN Redirect("/login")
  ELSE IF path \in DOMAIN Pages THEN Page(Pages[path])
  ELSE Redirect("/")

\* ProtectedRoute, and the Outlet of the MainLayout it returns
ProtectedRoute(path, a) ==
  IF a.loading THEN Page("Loading")
  ELSE IF a.session = NULL THEN Redirect("/login")
  ELSE IF path \in DOMAIN Pages THEN Page(Pages[path])
  ELSE Redirect("/")

\* AppRoutes: the element React Router renders for a path
AppRoutes(path, a) ==
  CASE path = "/login" ->
         IF a.session # NULL THEN Redirect("/") ELSE Page("LoginPage")
    [] path = "/signup" ->
         IF a.session # NULL THEN Redirect("/") ELSE Page("SignUpPage")
    [] path = "/forgot-password" ->
         IF a.session # NULL THEN Redirect("/")
         ELSE Page("ForgotPasswordPage")
    [] path = "/reset-password" -> Page("ResetPasswordPage")
    [] OTHER -> ProtectedRoute(path, a)

\* the path the router rests at once every <Navigate> has fired
RECURSIVE Settled(_, _)
Settled(path, a) ==
  IF AppRoutes(path, a).kind = "navigate"
  THEN Settled(AppRoutes(path, a).to, a)
  ELSE path

\* Sidebar's navItems: destination -> roles the link is shown to
navItems ==
  [p \in DOMAIN Pages |->
     CASE p \in {"/", "/sales", "/inventory"} ->
            {"Super Admin", "Stock Manager", "Cashier"}
       [] p = "/pos" -> {"Super Admin", "Cashier"}
       [] p \in {"/products", "/categories", "/suppliers",
                 "/purchase-orders"} -> {"Super Admin", "Stock Manager"}
       [] OTHER -> {"Super Admin"}]

\* BottomNav's navItems: destination -> roles the link is shown to; the
\* item labelled 'More' links to /settings
bottomNavItems ==
  [p \in {"/", "/pos", "/inventory", "/settings"} |->
     CASE p = "/pos" -> {"Super Admin", "Cashier"}
       [] OTHER -> {"Super Admin", "Stock Manager", "Cashier"}]

\* a navigation that shows every item until the role is known
NavLinksUntilRoleKnown(items, role) ==
  {p \in DOMAIN items : role = NULL \/ role \in items[p]}

\* navItems.map(item => role && item.roles.includes(role) ? <NavLink/> : null)
\* the destinations of the links rendered
NavLinks(items, role) ==
  {p \in DOMAIN items : role # NULL /\ role \in items[p]}

\* MainLayout is on screen: ProtectedRoute returned it for the current path
MainLayout ==
  /\ location \in DOMAIN Pages
  /\ AppRoutes(location, auth) = Page(Pages[location])

\* the links the Sidebar of the MainLayout shows
Sidebar == IF MainLayout THEN NavLinks(navItems, auth.role) ELSE {}

\* the links the BottomNav of the MainLayout shows
BottomNav == IF MainLayout THEN NavLinks(bottomNavItems, auth.role) ELSE {}

\* the address bar, a link or navigate(): any path, whoever is signed in
Navigate(path) ==
  /\ location' = Settled(path, auth)
  /\ location' # location
  /\ UNCHANGED <<database, dashVars, formVars, auth, appVars>>

\* AuthProvider publishes a new value: the session is resolved, a user signs
\* in or out, the profile (and with it the role) arrives or fails to; the
\* routes are rendered again
AuthChanges(session, hasProfile, loading) ==
  /\ auth' = [session |-> session,
              role |-> IF session # NULL /\ hasProfile
                       THEN profiles[session].role ELSE NULL,
              loading |-> loading]
  /\ auth' # auth
  /\ location' = Settled(location, auth')
  /\ UNCHANGED <<database, dashVars, formVars, appVars>>

\* ------------------------------------------------------- AuthProvider
\* the value given to the context: role: profile?.role ?? null, loading:
\* loadingInitial || loadingProfile
AuthValue ==
  [session |-> authProvider.session,
   user |-> authProvider.user,
   profile |-> authProvider.profile,
   role |-> IF authProvider.profile = JsNull THEN NULL
            ELSE authProvider.profile.role,
   loading |-> authProvider.loadingInitial \/ authProvider.loadingProfile]

\* the identity service signs user u in (the login form in this tab or in
\* another one) and announces the session to its subscribers
SignIn(u) ==
  /\ identity.announced < MaxEvents
  /\ identity.session # u
  /\ identity' = [session |-> u, events |-> Append(identity.events, u),
                  announced |-> identity.announced + 1]
  /\ UNCHANGED <<database, dashVars, formVars, auth, location, authProvider,
                 loginPage>>

\* signOut: supabase.auth.signOut(); the service announces the null session
signOut ==
  /\ identity.announced < MaxEvents
  /\ identity.session # NULL
  /\ identity' = [session |-> NULL, events |-> Append(identity.events, NULL),
                  announced |-> identity.announced + 1]
  /\ UNCHANGED <<database, dashVars, formVars, auth, location, authProvider,
                 loginPage>>

\* supabase.auth.getSession() reads the session the service holds; the
\* promise is settled with it
GetSessionReads ==
  /\ authProvider.getSession.state = "called"
  /\ authProvider' = [authProvider EXCEPT
                        !.getSession = [state |-> "read",
                                        session |-> identity.session]]
  /\ UNCHANGED <<database, dashVars, formVars, auth, location, identity,
                 loginPage>>

\* fetchSession after its await: setSession(session), setUser(session?.user
\* ?? null), setLoadingInitial(false); the [user] effect is queued when user
\* changed
fetchSession ==
  /\ authProvider.getSession.state = "read"
  /\ ~authProvider.effect
  /\ authProvider' = [authProvider EXCEPT
                        !.session = authProvider.getSession.session,
                        !.user = authProvider.getSession.session,
                        !.loadingInitial = FALSE,
                        !.effect = authProvider.getSession.session
                                     # authProvider.user,
                        !.getSession = [state |-> "done",
                                        session |-> @.session]]
  /\ UNCHANGED <<database, dashVars, formVars, auth, location, identity,
                 loginPage>>

\* the onAuthStateChange callback, run for the oldest event not yet
\* delivered: setSession(session), setUser(session?.user ?? null)
onAuthStateChange ==
  /\ identity.events # <<>>
  /\ ~authProvider.effect
  /\ authProvider' = [authProvider EXCEPT
                        !.session = Head(identity.events),
                        !.user = Head(identity.events),
                        !.effect = Head(identity.events) # authProvider.user]
  /\ identity' = [identity EXCEPT !.events = Tail(@)]
  /\ UNCHANGED <<database, dashVars, formVars, auth, location, loginPage>>

\* the [user] effect, up to fetchProfile's await: with a user,
\* setLoadingProfile(true) and the query on profiles is sent; without one,
\* setProfile(null)
fetchProfile ==
  /\ authProvider.effect
  /\ authProvider' =
       IF authProvider.user # NULL
       THEN [authProvider EXCEPT
               !.effect = FALSE,
               !.loadingProfile = TRUE,
               !.fetch_seq = @ + 1,
               !.fetches = @ \cup {[n |-> authProvider.fetch_seq + 1,
                                    user |-> authProvider.user]}]
       ELSE [authProvider EXCEPT !.effect = FALSE, !.profile = JsNull]
  /\ UNCHANGED <<database, dashVars, formVars, auth, location, identity,
                 loginPage>>

\* fetchProfile after its await, for any query in flight: setProfile(null)
\* on error, setProfile(data) otherwise, then setLoadingProfile(false)
FetchProfileReturns(f, ok) ==
  /\ f \in authProvider.fetches
  /\ ~authProvider.effect
  /\ authProvider' = [authProvider EXCEPT
                        !.profile = IF ok
                                    THEN [id |-> f.user,
                                          role |-> profiles[f.user].role]
                                    ELSE JsNull,
                        !.loadingProfile = FALSE,
                        !.fetches = @ \ {f}]
  /\ UNCHANGED <<database, dashVars, formVars, auth, location, identity,
                 loginPage>>

\* ---------------------------------------------------------- login form
\* typing into a field; the fields are disabled while loading
LoginType(field, v) ==
  /\ ~loginPage.loading
  /\ loginPage[field] # v
  /\ loginPage' = [loginPage EXCEPT ![field] = v]
  /\ UNCHANGED <<database, dashVars, formVars, auth, location, authProvider,
                 identity>>

\* handleLogin up to its await, run by the form's submit: the button is
\* disabled while loading and both inputs are required
handleLogin ==
  /\ ~loginPage.loading
  /\ loginPage.email # ""
  /\ loginPage.password # ""
  /\ Len(auth_calls) < MaxAuthCalls
  /\ loginPage' = [loginPage EXCEPT !.loading = TRUE, !.error = NULL,
                                    !.submissions = @ + 1]
  /\ auth_calls' = Append(auth_calls,
       [call |-> "signInWithPassword", email |-> loginPage.email,
        password |-> loginPage.password, result |-> "pending"])
  /\ UNCHANGED <<database, dashVars, signUpPage, resetPasswordPage, auth,
                 location, authProvider, identity>>

\* a handler that returns once it has shown the error
LoginReturnsEarlyOnError(result) ==
  /\ loginPage.loading
  /\ auth_calls # <<>>
  /\ auth_calls[Len(auth_calls)].result = "pending"
  /\ auth_calls' = [auth_calls EXCEPT ![Len(auth_calls)].result = result]
  /\ loginPage' = [loginPage EXCEPT
                     !.error = IF result = "ok" THEN @ ELSE result,
                     !.loading = result # "ok"]
  /\ UNCHANGED <<database, dashVars, signUpPage, resetPasswordPage, auth,
                 location, authProvider, identity>>

\* handleLogin after its await: supabase.auth.signInWithPassword returned
\* { error }, null on success and an AuthError otherwise (a refused sign-in,
\* or a request that did not reach the service); if (error)
\* setError(error.message); setLoading(false)
LoginReturns(result) ==
  /\ loginPage.loading
  /\ auth_calls # <<>>
  /\ auth_calls[Len(auth_calls)].result = "pending"
  /\ auth_calls' = [auth_calls EXCEPT ![Len(auth_calls)].result = result]
  /\ loginPage' = [loginPage EXCEPT
                     !.error = IF result = "ok" THEN @ ELSE result,
                     !.loading = FALSE]
  /\ UNCHANGED <<database, dashVars, signUpPage, resetPasswordPage, auth,
                 location, authProvider, identity>>

\* what a sign-in call comes back with: no error, or the message of one
LoginResults == {"ok", "Invalid login credentials", "Failed to fetch"}

\* ------------------------------------------ sign-up and reset forms
PasswordsDoNotMatch == "Passwords do not match."

\* typing into a field; the fields are disabled while loading
SignUpType(field, v) ==
  /\ ~signUpPage.loading
  /\ signUpPage[field] # v
  /\ signUpPage' = [signUpPage EXCEPT ![field] = v]
  /\ UNCHANGED <<database, routerVars, dashVars, resetPasswordPage, auth_calls>>

\* a handler that enters the loading state before it compares
handleSignUpChecksLate ==
  /\ ~signUpPage.loading
  /\ signUpPage.email # ""
  /\ signUpPage.password # ""
  /\ signUpPage.confirmPassword # ""
  /\ IF signUpPage.password # signUpPage.confirmPassword
     THEN /\ signUpPage' = [signUpPage EXCEPT !.loading = TRUE,
                                              !.error = PasswordsDoNotMatch]
          /\ UNCHANGED auth_calls
     ELSE /\ Len(auth_calls) < MaxAuthCalls
          /\ signUpPage' = [signUpPage EXCEPT !.loading = TRUE,
                                              !.error = NULL,
                                              !.success = NULL]
          /\ auth_calls' = Append(auth_calls,
               [call |-> "signUp", email |-> signUpPage.email,
                password |-> signUpPage.password,
                data |-> NoMetadata])
  /\ UNCHANGED <<database, routerVars, dashVars, resetPasswordPage>>

\* handleSignUp, run by the form's submit: the button is disabled while
\* loading and the three inputs are required
handleSignUp ==
  /\ ~signUpPage.loading
  /\ signUpPage.email # ""
  /\ signUpPage.password # ""
  /\ signUpPage.confirmPassword # ""
  /\ IF signUpPage.password # signUpPage.confirmPassword
     THEN /\ signUpPage' = [signUpPage EXCEPT !.error = PasswordsDoNotMatch]
          /\ UNCHANGED auth_calls
     ELSE /\ Len(auth_calls) < MaxAuthCalls
          /\ signUpPage' = [signUpPage EXCEPT !.loading = TRUE,
                                              !.error = NULL,
                                              !.success = NULL]
          /\ auth_calls' = Append(auth_calls,
               [call |-> "signUp", email |-> signUpPage.email,
                password |-> signUpPage.password,
                data |-> NoMetadata])
  /\ UNCHANGED <<database, routerVars, dashVars, resetPasswordPage>>

\* supabase.auth.signUp returns, with an error or without
SignUpReturns(ok) ==
  /\ signUpPage.loading
  /\ signUpPage' = [signUpPage EXCEPT
                      !.error = IF ok THEN @ ELSE "error.message",
                      !.success = IF ok THEN "Success" ELSE @,
                      !.loading = FALSE]
  /\ UNCHANGED <<database, routerVars, dashVars, resetPasswordPage, auth_calls>>

\* typing into a field of the reset form; disabled while loading and after
\* success
ResetType(field, v) ==
  /\ ~resetPasswordPage.loading
  /\ resetPasswordPage.success = NULL
  /\ resetPasswordPage[field] # v
  /\ resetPasswordPage' = [resetPasswordPage EXCEPT ![field] = v]
  /\ UNCHANGED <<database, routerVars, dashVars, signUpPage, auth_calls>>

\* handleResetPassword, run by the form's submit
handleResetPassword ==
  /\ ~resetPasswordPage.loading
  /\ resetPasswordPage.success = NULL
  /\ resetPasswordPage.password # ""
  /\ resetPasswordPage.confirmPassword # ""
  /\ IF resetPasswordPage.password # resetPasswordPage.confirmPassword
     THEN /\ resetPasswordPage' =
               [resetPasswordPage EXCEPT !.error = PasswordsDoNotMatch]
          /\ UNCHANGED auth_calls
     ELSE /\ Len(auth_calls) < MaxAuthCalls
          /\ resetPasswordPage' =
               [resetPasswordPage EXCEPT !.loading = TRUE, !.error = NULL,
                                         !.success = NULL]
          /\ auth_calls' = Append(auth_calls,
               [call |-> "updateUser",
                password |-> resetPasswordPage.password])
  /\ UNCHANGED <<database, routerVars, dashVars, signUpPage>>

\* supabase.auth.updateUser returns
ResetReturns(ok) ==
  /\ resetPasswordPage.loading
  /\ resetPasswordPage' = [resetPasswordPage EXCEPT
                             !.error = IF ok THEN @ ELSE "error.message",
                             !.success = IF ok THEN "Success" ELSE @,
                             !.loading = FALSE]
  /\ UNCHANGED <<database, routerVars, dashVars, signUpPage, auth_calls>>

\* three seconds after the success: navigate('/login'), the page is left
ResetRedirects ==
  /\ resetPasswordPage.success # NULL
  /\ ~resetPasswordPage.loading
  /\ resetPasswordPage' = FormInitial
  /\ UNCHANGED <<database, routerVars, dashVars, signUpPage, auth_calls>>

\* ------------------------------------------------------------- sign-up
\* what a caller of supabase.auth.signUp may put into options.data
Metadata == [full_name : FullNames, avatar_url : {NULL}, role : MetaRoles]

\* a sign-up that takes the profile's role from the metadata when it is there
handle_new_user_from_metadata(new) ==
  [full_name |-> new.raw_user_meta_data.full_name,
   avatar_url |-> new.raw_user_meta_data.avatar_url,
   role |-> IF new.raw_user_meta_data.role \in user_role
            THEN new.raw_user_meta_data.role ELSE "Cashier"]

\* POS schema, handle_new_user(): the profiles row inserted for new.id
handle_new_user(new) ==
  [full_name |-> new.raw_user_meta_data.full_name,
   avatar_url |-> new.raw_user_meta_data.avatar_url,
   role |-> "Cashier"]

\* ledger schema, handle_new_user(): the public.users row inserted for new.id
ledger_handle_new_user(new) ==
  [email |-> new.email,
   full_name |-> new.raw_user_meta_data.full_name,
   role |-> "cashier"]

\* supabase.auth.signUp against the POS deployment: the auth service inserts
\* the auth.users row (fresh id, an e-mail no user has yet) and the trigger
\* on_auth_user_created inserts the profile in the same transaction.  The
\* sign-up form sends NoMetadata; a caller of the API may send anything.
SignUp(id, email, meta) ==
  LET new == [id |-> id, email |-> email, raw_user_meta_data |-> meta] IN
  /\ \A a \in auth_users : a.id # id /\ a.email # email
  /\ id \notin DOMAIN profiles
  /\ auth_users' = auth_users \cup {new}
  /\ profiles' = [u \in DOMAIN profiles \cup {id} |->
                    IF u = id THEN handle_new_user(new) ELSE profiles[u]]
  /\ UNCHANGED <<product_batches, batch_seq, purchase_orders,
                 purchase_order_items, sales, sale_items, tx, ledgerVars,
                 ledger_auth_users, public_users, adminVars, products,
                 dashVars, formVars, routerVars>>

\* the same against the ledger deployment; public.users.email is UNIQUE, a
\* duplicate there fails the trigger and with it the sign-up
LedgerSignUp(id, email, meta) ==
  LET new == [id |-> id, email |-> email, raw_user_meta_data |-> meta] IN
  /\ \A a \in ledger_auth_users : a.id # id /\ a.email # email
  /\ id \notin DOMAIN public_users
  /\ \A u \in DOMAIN public_users : public_users[u].email # email
  /\ ledger_auth_users' = ledger_auth_users \cup {new}
  /\ public_users' = [u \in DOMAIN public_users \cup {id} |->
                        IF u = id THEN ledger_handle_new_user(new)
                        ELSE public_users[u]]
  /\ UNCHANGED <<posVars, ledgerVars, auth_users, adminVars, products,
                 dashVars, formVars, routerVars>>

\* ------------------------------------------------------- specifications
\* Sign-ups against either deployment.
NextSignUp ==
  \/ \E id \in NewUserIds, e \in Emails \cup Users, m \in Metadata :
        SignUp(id, e, m)
  \/ \E id \in NewUserIds, e \in Emails \cup Users, m \in Metadata :
        LedgerSignUp(id, e, m)

SpecSignUp == InitOrders /\ [][NextSignUp]_vars

\* The dashboard page, opened and left any number of times.
NextDashboard ==
  \/ DashMount
  \/ \E q \in Queries, ok \in BOOLEAN : QueryReturns(q, ok)
  \/ DashSettle
  \/ DashUnmount

SpecDashboard == InitDashboard /\ [][NextDashboard]_vars

\* The sign-up and the reset-password form in use.
NextForms ==
  \/ \E v \in Emails \cup {""} : SignUpType("email", v)
  \/ \E field \in {"password", "confirmPassword"}, v \in Passwords :
        SignUpType(field, v)
  \/ handleSignUp
  \/ \E ok \in BOOLEAN : SignUpReturns(ok)
  \/ \E field \in {"password", "confirmPassword"}, v \in Passwords :
        ResetType(field, v)
  \/ handleResetPassword
  \/ \E ok \in BOOLEAN : ResetReturns(ok)
  \/ ResetRedirects

SpecForms == InitOrders /\ [][NextForms]_vars

\* The router under every value AuthProvider can publish.
NextRouter ==
  \/ \E path \in Paths : Navigate(path)
  \/ \E session \in Users \cup {NULL}, hasProfile, loading \in BOOLEAN :
        AuthChanges(session, hasProfile, loading)

SpecRouter == InitOrders /\ [][NextRouter]_vars

\* Statements on sales, profiles, users and settings by the three users.
NextPolicies ==
  \/ \E u, c \in Users, t \in TotalAmounts : InsertSale(u, c, t)
  \/ \E u, t \in Users, r \in user_role : UpdateProfile(u, t, r)
  \/ \E u, t \in Users, r \in ledger_user_role : UpdateUser(u, t, r)
  \/ \E u \in Users : InsertSettings(u)
  \/ \E u \in Users : DeleteSettings(u)
  \/ \E u \in Users, rate \in TaxRates : UpdateSettings(u, rate)

SpecPolicies == InitOrders /\ [][NextPolicies]_vars

\* AuthProvider and the identity service it listens to.
NextAuthProvider ==
  \/ \E u \in Users : SignIn(u)
  \/ signOut
  \/ GetSessionReads
  \/ fetchSession
  \/ onAuthStateChange
  \/ fetchProfile
  \/ \E f \in authProvider.fetches, ok \in BOOLEAN : FetchProfileReturns(f, ok)

SpecAuthProvider == InitOrders /\ [][NextAuthProvider]_vars

\* The login form and the sign-in calls it makes.
NextLogin ==
  \/ \E v \in Emails \cup {""} : LoginType("email", v)
  \/ \E v \in Passwords : LoginType("password", v)
  \/ handleLogin
  \/ \E result \in LoginResults : LoginReturns(result)

SpecLogin == InitOrders /\ [][NextLogin]_vars

\* The same, with every sign-in call answered: the promise awaited by
\* handleLogin is settled by the auth client, with a session or an error.
SpecLoginFair ==
  SpecLogin /\ WF_vars(\E result \in LoginResults : LoginReturns(result))

\* The ledger schema's product stock column and its batches.
NextStock ==
  \/ \E u \in Users, p \in Products, bn \in BatchNumbers, q \in LedgerQtys :
        LedgerInsertBatch(u, p, bn, q)
  \/ \E u \in Users, b \in 1..MaxUuids, q \in LedgerQtys : LedgerUpdateBatch(u, b, q)
  \/ \E u \in Users, b \in 1..MaxUuids : LedgerDeleteBatch(u, b)
  \/ \E u \in Users, p \in Products, sq \in StockQtys, ms \in MinStocks :
        UpdateProduct(u, p, sq, ms)

SpecStock == InitLedger /\ [][NextStock]_vars

\* Sale settlement alone, against the received batch.
NextSettle ==
  \/ \E s \in Sessions, u \in Users : Begin(s, u)
  \/ \E u, c \in Users, t \in TotalAmounts : InsertSale(u, c, t)
  \/ \E s \in Sessions, sale_id \in 1..MaxSales, b \in 1..MaxBatches,
        n \in SaleQtys, price \in UnitPrices :
        InsertSaleItem(s, sale_id, b, n, price)
  \/ \E s \in Sessions : Commit(s)
  \/ \E s \in Sessions : Rollback(s)

SpecSettle == InitSettle /\ [][NextSettle]_vars

\* Sales, purchase receipts and direct batch writes.
Next ==
  \/ \E s \in Sessions, u \in Users : Begin(s, u)
  \/ \E u, c \in Users, t \in TotalAmounts : InsertSale(u, c, t)
  \/ \E s \in Sessions, sale_id \in 1..MaxSales, b \in 1..MaxBatches,
        n \in SaleQtys, price \in UnitPrices :
        InsertSaleItem(s, sale_id, b, n, price)
  \/ \E s \in Sessions : Commit(s)
  \/ \E s \in Sessions : Rollback(s)
  \/ \E u \in Users, p \in Products, q \in BatchQtys, c \in UnitCosts :
        InsertBatch(u, p, q, c)
  \/ \E u \in Users, b \in 1..MaxBatches, q \in BatchQtys : UpdateBatch(u, b, q)
  \/ \E u \in Users, b \in 1..MaxBatches : DeleteBatch(u, b)
  \/ \E u \in Users, i \in 1..MaxOrderItems : update_stock_from_purchase(u, i)

Spec == Init /\ [][Next]_vars

\* Purchase orders, their items and their receipt.
NextOrders ==
  \/ \E u \in Users, st \in purchase_order_status : InsertPurchaseOrder(u, st)
  \/ \E u \in Users, po \in 1..MaxOrders, st \in purchase_order_status :
        UpdatePurchaseOrder(u, po, st)
  \/ \E u \in Users, po \in 1..MaxOrders, p \in Products, q \in OrderQtys,
        c \in UnitCosts : InsertPurchaseOrderItem(u, po, p, q, c)
  \/ \E u \in Users, i \in 1..MaxOrderItems : update_stock_from_purchase(u, i)
  \/ \E u \in Users, b \in 1..MaxBatches, q \in BatchQtys : UpdateBatch(u, b, q)

SpecOrders == InitOrders /\ [][NextOrders]_vars

\* The ledger schema under its full-access policies.
NextLedger ==
  \/ \E u \in Users, p \in Products, bn \in BatchNumbers, q \in LedgerQtys :
        LedgerInsertBatch(u, p, bn, q)
  \/ \E u \in Users, b \in 1..MaxUuids, q \in LedgerQtys : LedgerUpdateBatch(u, b, q)
  \/ \E u \in Users, b \in 1..MaxUuids : LedgerDeleteBatch(u, b)
  \/ \E u \in Users, p \in Products, ct \in {"sale", "purchase"},
        q \in MovementQtys : InsertMovement(u, p, ct, q)
  \/ \E u \in Users, m \in 1..MaxUuids, q \in MovementQtys : UpdateMovement(u, m, q)
  \/ \E u \in Users, m \in 1..MaxUuids : DeleteMovement(u, m)
  \/ \E u \in Users, st \in Subtotals, d \in Discounts, t \in Taxes, tot \in Totals :
        LedgerInsertSale(u, st, d, t, tot)
  \/ \E u \in Users, sale_id \in 1..MaxUuids, tot \in Totals :
        LedgerUpdateSale(u, sale_id, tot)
  \/ \E u \in Users, sale_id \in 1..MaxUuids : LedgerDeleteSale(u, sale_id)
  \/ \E u \in Users, sale_id \in 1..MaxUuids, p \in Products, q \in ItemQtys,
        price \in Prices, d \in Discounts :
        LedgerInsertSaleItem(u, sale_id, p, q, price, d)
  \/ \E u \in Users, i \in 1..MaxUuids : LedgerDeleteSaleItem(u, i)

SpecLedger == InitLedger /\ [][NextLedger]_vars

\* ------------------------------------------------------------------ claims
SoldQty(rows, b) ==
  SumSeq([i \in DOMAIN rows |->
            IF rows[i].product_batch_id = b THEN rows[i].quantity ELSE 0])

\* quantity of batch 1 when it was received, before any sale
InitialQuantity == purchase_order_items[1].quantity

AllFinished == \A s \in Sessions : tx[s].state = "idle"

\* C1: for every interleaving of concurrent sale settlements against one
\* batch of initial quantity Q, the quantities of the settlements that
\* succeeded sum to at most Q, and once every settlement has finished the
\* batch quantity is Q minus that sum.
C1_NoOversell ==
  \A r \in product_batches :
    /\ SoldQty(sale_items, r.id) <= InitialQuantity
    /\ AllFinished => r.quantity = InitialQuantity - SoldQty(sale_items, r.id)

\* C2: every batch quantity is at least 0 in every reachable state, the row
\* versions written by settlements still in progress included.
C2_QuantityNonNegative ==
  /\ \A r \in product_batches : r.quantity >= 0
  /\ \A r \in batches : r.quantity >= 0
  /\ \A s \in Sessions : \A w \in tx[s].upd : w.quantity >= 0

\* the error the settlement contract names for a refused line
InsufficientStock == "InsufficientStock"

\* C3: a sale line asking for more than its batch holds is refused with an
\* InsufficientStock error and leaves the store as it was: no sale_items row,
\* no batch quantity change.
C3_InsufficientStockRejected ==
  [][\A s \in Sessions, sale_id \in 1..MaxSales, b \in 1..MaxBatches,
        n \in SaleQtys, price \in UnitPrices :
        ( /\ InsertSaleItem(s, sale_id, b, n, price)
          /\ CanSell(tx[s].user)
          /\ sale_id \in DOMAIN sales
          /\ b \in BatchIds
          /\ VisibleQty(s, b) < n )
        => ( /\ tx'[s].sqlstate = InsufficientStock
             /\ tx'[s].items = <<>>
             /\ tx'[s].upd = {}
             /\ UNCHANGED <<product_batches, sales, sale_items>> )]_vars

NewSaleItems == SubSeq(sale_items', Len(sale_items) + 1, Len(sale_items'))

\* C4: whichever permitted role sells, the step that makes sale items of
\* quantity n against batch b take effect lowers b's quantity by exactly n
\* and leaves every other batch's quantity alone.
C4_SaleDecrementsBatch ==
  [][Len(sale_items') > Len(sale_items) =>
       \A r \in product_batches :
         \E r2 \in product_batches' :
           /\ r2.id = r.id
           /\ r2.quantity = r.quantity - SoldQty(NewSaleItems, r.id)]_vars

NewMovements == inventory_movements' \ inventory_movements

ProductOfBatch(b) == BatchRow(b).product_id

\* C5: the step in which a sale's line items take effect appends exactly one
\* inventory movement per line, with cause 'sale' and quantity minus the
\* quantity sold on that line.
C5_SaleAppendsMovements ==
  [][Len(sale_items') > Len(sale_items) =>
       /\ Cardinality(NewMovements) = Len(NewSaleItems)
       /\ \A m \in NewMovements : m.change_type = "sale"
       /\ \A p \in Products, n \in SaleQtys :
            Cardinality({m \in NewMovements :
                           m.product_id = p /\ m.quantity = -n}) =
            Cardinality({i \in DOMAIN NewSaleItems :
                           /\ ProductOfBatch(NewSaleItems[i].product_batch_id) = p
                           /\ NewSaleItems[i].quantity = n})]_vars

RECURSIVE SumQuantity(_)
SumQuantity(rows) ==
  IF rows = {} THEN 0
  ELSE LET r == CHOOSE x \in rows : TRUE
       IN r.quantity + SumQuantity(rows \ {r})

OnHand(p) == SumQuantity({r \in batches : r.product_id = p})

MovementSum(p) == SumQuantity({m \in inventory_movements : m.product_id = p})

\* C6: the movement ledger accounts for the batches: the quantity on hand of
\* every product equals the sum of the movement quantities recorded for it.
C6_LedgerAccountsForBatches ==
  \A p \in Products : OnHand(p) = MovementSum(p)

\* C7: the movement ledger is append-only: a movement row, once written, is
\* in the table unchanged ever after.
C7_MovementsAppendOnly ==
  [][\A m \in inventory_movements : m \in inventory_movements']_vars

\* C8: a sale is immutable and never empty: no step changes or removes a
\* sales row, and every sales row has at least one sale item.
C8_SaleImmutableNonEmpty ==
  [][/\ \A r \in ledger_sales : r \in ledger_sales'
     /\ \A r \in ledger_sales' :
          \E i \in ledger_sale_items' : i.sale_id = r.id]_vars

RECURSIVE SumTotal(_)
SumTotal(rows) ==
  IF rows = {} THEN 0
  ELSE LET r == CHOOSE x \in rows : TRUE
       IN r.total + SumTotal(rows \ {r})

\* C9: every sale's total is the sum of its items' totals (quantity x price
\* - discount) plus its tax minus its discount.
C9_SaleTotalMatchesItems ==
  \A r \in ledger_sales :
    r.total = SumTotal({i \in ledger_sale_items : i.sale_id = r.id})
                + r.tax - r.discount

StatusRank(st) ==
  CASE st = "Pending" -> 0 [] st = "Sent" -> 1 [] OTHER -> 2

\* C10: a purchase order's status only moves forward (Pending, Sent,
\* Received) or to Cancelled; Received and Cancelled are never left.
C10_StatusForwardOnly ==
  [][\A po \in DOMAIN purchase_orders :
       LET old == purchase_orders[po].status
           new == purchase_orders'[po].status
       IN old # new =>
            /\ old \notin {"Received", "Cancelled"}
            /\ new = "Cancelled" \/ StatusRank(new) > StatusRank(old)]_vars

\* total on hand of product p in a product_batches table
PosOnHand(rows, p) == SumQuantity({r \in rows : r.product_id = p})

\* what order po orders of product p, over all its line items
OrderedQty(po, p) ==
  SumSeq([i \in DOMAIN purchase_order_items |->
            IF /\ purchase_order_items[i].purchase_order_id = po
               /\ purchase_order_items[i].product_id = p
            THEN purchase_order_items[i].quantity ELSE 0])

\* C11: receiving a purchase order sets its status to Received and raises
\* the on-hand quantity of each line item's product by exactly the ordered
\* quantity, both in the same step: a step that makes an order Received
\* brings in the stock of all its lines, and a step that receives a line
\* leaves its order Received.
C11_ReceiptSetsStatusAndStock ==
  [][/\ \A po \in DOMAIN purchase_orders :
          ( /\ purchase_orders[po].status # "Received"
            /\ purchase_orders'[po].status = "Received" )
          => \A p \in Products :
               PosOnHand(product_batches', p) =
                 PosOnHand(product_batches, p) + OrderedQty(po, p)
     /\ \A u \in Users, i \in DOMAIN purchase_order_items :
          update_stock_from_purchase(u, i)
          => purchase_orders'[purchase_order_items[i].purchase_order_id].status
               = "Received"]_vars

\* C12: receiving a line item creates one batch of the item's product whose
\* cost price is the item's unit cost and whose selling price is that cost
\* times 1.25 (to the cent), and appends one inventory movement with cause
\* 'purchase' for the received quantity.
C12_ReceiptCreatesBatchAndMovement ==
  [][\A u \in Users, i \in DOMAIN purchase_order_items :
       update_stock_from_purchase(u, i)
       => LET item == purchase_order_items[i] IN
            /\ \E r \in product_batches' \ product_batches :
                 /\ product_batches' = product_batches \cup {r}
                 /\ r.product_id = item.product_id
                 /\ r.cost_price = item.unit_cost
                 /\ r.quantity = item.quantity
                 /\ 100 * r.selling_price - 125 * item.unit_cost \in -50..50
            /\ \E m \in NewMovements :
                 /\ NewMovements = {m}
                 /\ m.product_id = item.product_id
                 /\ m.change_type = "purchase"
                 /\ m.quantity = item.quantity]_vars

\* C13: purchase receipt is idempotent per line item: a second receipt of an
\* item is refused or changes nothing, so the receipts never leave more
\* batches of a product than there are line items ordering it (batches are
\* created by receipts alone here, one per effective receipt).
C13_ReceiptIdempotent ==
  \A p \in Products :
    Cardinality({r \in product_batches : r.product_id = p}) <=
    Cardinality({i \in DOMAIN purchase_order_items :
                   purchase_order_items[i].product_id = p})

\* C14: a sign-up with a new e-mail creates exactly one profile row, linked
\* to the new auth user, with role Cashier ('cashier' in the ledger schema),
\* whatever the signing-up user supplies, user metadata included.
C14_SignUpCreatesCashier ==
  [][/\ \A a \in auth_users' \ auth_users :
          /\ a.id \notin DOMAIN profiles
          /\ DOMAIN profiles' = DOMAIN profiles \cup {a.id}
          /\ profiles'[a.id].role = "Cashier"
          /\ \A u \in DOMAIN profiles : profiles'[u] = profiles[u]
     /\ \A a \in ledger_auth_users' \ ledger_auth_users :
          /\ a.id \notin DOMAIN public_users
          /\ DOMAIN public_users' = DOMAIN public_users \cup {a.id}
          /\ public_users'[a.id].role = "cashier"
          /\ public_users'[a.id].email = a.email
          /\ \A u \in DOMAIN public_users : public_users'[u] = public_users[u]
     /\ DOMAIN profiles' = {a.id : a \in auth_users'}
     /\ DOMAIN public_users' = {a.id : a \in ledger_auth_users'}]_vars

\* a user who asked for the Super Admin role in the sign-up metadata has
\* signed up, in each deployment
C14_Witness ==
  /\ \E a \in auth_users :
       /\ a.raw_user_meta_data.role = "Super Admin"
       /\ profiles[a.id].role = "Cashier"
  /\ \E a \in ledger_auth_users :
       /\ a.raw_user_meta_data.role = "super_admin"
       /\ public_users[a.id].role = "cashier"

\* C15: the denormalized product stock stays consistent with the batches:
\* every product's stock_quantity equals the sum of the quantities of its
\* batches.
C15_StockQuantityMatchesBatches ==
  \A p \in Products : products[p].stock_quantity = OnHand(p)

\* C16: the dashboard rollup fails as a whole: when any of the four queries
\* returned an error no statistic is published (stats and recentSales keep
\* the value they had), an error message is set and loading ends false;
\* statistics are published only when every query succeeded.
C16_RollupFailsAsAWhole ==
  [][( /\ dashboard.pc = "fetching"
       /\ dashboard'.pc = "done" )
     => /\ dashboard'.loading = FALSE
        /\ (\E q \in Queries : dashboard.res[q].state = "error")
             => /\ dashboard'.stats = dashboard.stats
                /\ dashboard'.stats = JsNull
                /\ dashboard'.recentSales = dashboard.recentSales
                /\ dashboard'.recentSales = JsNull
                /\ dashboard'.error # NULL
        /\ dashboard'.stats # JsNull
             => /\ \A q \in Queries : dashboard.res[q].state = "ok"
                /\ dashboard'.error = NULL]_vars

\* the rollup has ended with the last query failed and the others answered
C16_Witness ==
  /\ dashboard.pc = "done"
  /\ dashboard.res["recentSales"].state = "error"
  /\ \A q \in Queries \ {"recentSales"} : dashboard.res[q].state = "ok"
  /\ dashboard.stats = JsNull
  /\ dashboard.error = FailedToFetch
  /\ ~dashboard.loading

\* the local calendar day an instant falls on
LocalDay(t) == (t + tz) \div 24

\* the totals of the sales made on the day the dashboard was loaded
TotalOfToday ==
  SumSeq([i \in 1..MaxApiSales |->
            IF \E r \in api_sales :
                  r.id = i /\ LocalDay(r.created_at) = LocalDay(clock)
            THEN TotalAmountOf(i) ELSE 0])

\* C17: the published "today's sales" figure is the sum of the totals of
\* exactly the sales created from today 00:00 up to, not including,
\* tomorrow 00:00 (local time); 0 when there are none.
C17_TodaysSalesFigure ==
  dashboard.stats # JsNull
  => dashboard.stats.totalSalesToday = TotalOfToday

\* three sales of 10.00, 25.50 and 7.25 within the day show as 42.75
C17_Witness ==
  /\ dashboard.stats # JsNull
  /\ Cardinality(api_sales) = 3
  /\ \A r \in api_sales : LocalDay(r.created_at) = LocalDay(clock)
  /\ \E r \in api_sales : r.created_at = dashboard.today
  /\ dashboard.stats.totalSalesToday = 4275

\* C18: the published low-stock figure is the number of products whose
\* quantity on hand is at or below their low-stock threshold (min_stock).
C18_LowStockFigure ==
  dashboard.stats # JsNull
  => dashboard.stats.lowStockItems =
       Cardinality({p \in Products :
                      products[p].stock_quantity <= products[p].min_stock})

\* C19: when the password and its confirmation differ, handleSignUp and
\* handleResetPassword set the error 'Passwords do not match.' and return:
\* no call goes to the auth service and the loading state is not entered;
\* a call is made only with the two values equal.
C19_MismatchStopsBeforeAuthCall ==
  [][/\ ( /\ handleSignUp
          /\ signUpPage.password # signUpPage.confirmPassword )
        => /\ signUpPage'.error = PasswordsDoNotMatch
           /\ ~signUpPage'.loading
           /\ auth_calls' = auth_calls
     /\ ( /\ handleResetPassword
          /\ resetPasswordPage.password # resetPasswordPage.confirmPassword )
        => /\ resetPasswordPage'.error = PasswordsDoNotMatch
           /\ ~resetPasswordPage'.loading
           /\ auth_calls' = auth_calls
     /\ auth_calls' # auth_calls
        => \/ /\ signUpPage.password = signUpPage.confirmPassword
              /\ signUpPage'.loading
              /\ auth_calls' = Append(auth_calls,
                   [call |-> "signUp", email |-> signUpPage.email,
                    password |-> signUpPage.password, data |-> NoMetadata])
           \/ /\ resetPasswordPage.password
                   = resetPasswordPage.confirmPassword
              /\ resetPasswordPage'.loading
              /\ auth_calls' = Append(auth_calls,
                   [call |-> "updateUser",
                    password |-> resetPasswordPage.password])]_vars

\* both forms have refused a mismatch after an earlier call of theirs
C19_Witness ==
  /\ signUpPage.error = PasswordsDoNotMatch
  /\ signUpPage.password # signUpPage.confirmPassword
  /\ resetPasswordPage.error = PasswordsDoNotMatch
  /\ resetPasswordPage.password # resetPasswordPage.confirmPassword
  /\ \E i \in DOMAIN auth_calls : auth_calls[i].call = "signUp"
  /\ \E i \in DOMAIN auth_calls : auth_calls[i].call = "updateUser"

\* the page on screen
Screen == AppRoutes(location, auth).to

\* C20: the router gates screens by role: a signed-in user of role R is
\* shown only the screens permitted for R (those the navigation lists for
\* R), whatever path is navigated to; a Cashier never sees /users,
\* /settings, /products, /categories, /suppliers or /purchase-orders, a
\* Stock Manager never /pos, /users or /settings.
C20_RouterGatesByRole ==
  \A p \in DOMAIN Pages :
    ( /\ auth.session # NULL
      /\ auth.role # NULL
      /\ location = p
      /\ Screen = Pages[p] )
    => auth.role \in navItems[p]

\* C21: a navigation item is rendered by Sidebar and by BottomNav only when
\* the current role is non-null and is a member of that item's roles list;
\* while the role is null no navigation item is rendered.
C21_NavItemsFollowRole ==
  /\ \A p \in Sidebar : auth.role # NULL /\ auth.role \in navItems[p]
  /\ \A p \in BottomNav : auth.role # NULL /\ auth.role \in bottomNavItems[p]
  /\ auth.role = NULL => Sidebar = {} /\ BottomNav = {}

\* a Cashier's layout: the four links of each navigation permitted to them
C21_Witness ==
  /\ MainLayout
  /\ auth.role = "Cashier"
  /\ Sidebar = {"/", "/pos", "/sales", "/inventory"}
  /\ BottomNav = {"/", "/pos", "/inventory", "/settings"}

\* C28: ProtectedRoute renders the main layout (and thus any protected
\* screen) only where loading is false and session is non-null; with loading
\* false and session null it redirects to /login; while loading is true it
\* renders neither the layout nor a redirect. The login, signup and
\* forgot-password forms are rendered only while session is null.
C28_ProtectedRouteGuards ==
  /\ \A path \in Paths :
       LET el == ProtectedRoute(path, auth) IN
         /\ (el.kind = "page" /\ el.to # "Loading")
              => ~auth.loading /\ auth.session # NULL
         /\ (~auth.loading /\ auth.session = NULL) => el = Redirect("/login")
         /\ auth.loading => el = Page("Loading")
  /\ MainLayout => ~auth.loading /\ auth.session # NULL
  /\ Screen \in {"LoginPage", "SignUpPage", "ForgotPasswordPage"}
       => auth.session = NULL

\* a resolved session, and the layout with a protected screen rendered
C28_Witness ==
  /\ auth.session # NULL
  /\ ~auth.loading
  /\ MainLayout
  /\ Screen = "UsersPage"

\* C29: Sidebar and BottomNav agree on who may see a destination: for every
\* route in both navigation lists the item is shown to the same roles, so
\* neither navigation offers a role a route the other withholds from it.
C29_NavigationsAgree ==
  MainLayout =>
    \A p \in DOMAIN navItems \cap DOMAIN bottomNavItems :
      p \in Sidebar <=> p \in BottomNav

\* C22: under the sales SELECT policies a user whose role is Cashier can
\* read a sales row only if the row's cashier_id is their own id, while
\* Super Admin and Stock Manager can read every sales row, after any
\* sequence of sale inserts by any users.
C22_CashierReadsOwnSales ==
  \A u \in DOMAIN profiles :
    /\ get_my_role(u) = "Cashier"
         => \A i \in SelectSales(u) : sales[i].cashier_id = u
    /\ get_my_role(u) \in {"Super Admin", "Stock Manager"}
         => SelectSales(u) = DOMAIN sales

\* a sale on the manager's name: the Cashier reads nothing, the others it
C22_Witness ==
  /\ sales # <<>>
  /\ sales[1].cashier_id = "manager"
  /\ get_my_role("cashier") = "Cashier"
  /\ SelectSales("cashier") = {}
  /\ SelectSales("admin") = {1}
  /\ SelectSales("manager") = {1}

C24_NoPrivilegeEscalation ==
  [][/\ \A t \in DOMAIN profiles :
          profiles'[t].role # profiles[t].role =>
            /\ request'.op = "UPDATE profiles"
            /\ profiles[request'.uid].role = "Super Admin"
     /\ \A t \in DOMAIN public_users :
          public_users'[t].role # public_users[t].role =>
            /\ request'.op = "UPDATE users"
            /\ public_users[request'.uid].role = "super_admin"]_vars

\* C25: in AuthProvider, whenever profile is non-null the current user is
\* non-null and the profile is the one fetched for that user, under every
\* interleaving of sign-in, sign-out and user-switch events with fetchProfile
\* responses in flight (renders whose effects have not run yet left aside).
C25_ProfileBelongsToUser ==
  (~authProvider.effect /\ AuthValue.profile # JsNull) =>
    /\ AuthValue.user # NULL
    /\ AuthValue.profile.id = AuthValue.user

\* C26: in AuthProvider, once the initial getSession call has resolved and
\* every auth-state-change event has been delivered, the held session is the
\* most recent session announced by the identity service.
C26_SessionIsTheLatest ==
  (authProvider.getSession.state = "done" /\ identity.events = <<>>) =>
    AuthValue.session = identity.session

\* C27: AuthProvider's loading flag is true whenever the initial session
\* fetch or any profile fetch is still in flight; completion of the first of
\* two overlapping profile fetches does not make it false.
C27_LoadingWhileInFlight ==
  (authProvider.getSession.state # "done" \/ authProvider.fetches # {}) =>
    AuthValue.loading

\* the latest sign-in call of the log
LastCall == auth_calls[Len(auth_calls)]

\* C30: every submission of the login form terminates: after handleLogin
\* starts, loading eventually returns to false whether the sign-in call
\* succeeds, returns an error or fails at the network level; one sign-in call
\* is issued per submission, an error result sets the error message, and no
\* second submission starts while loading is true.
C30_LoginTerminates ==
  /\ loginPage.loading ~> ~loginPage.loading
  /\ [](Len(auth_calls) = loginPage.submissions)
  /\ []((auth_calls # <<>> /\ LastCall.result \notin {"ok", "pending"})
          => loginPage.error = LastCall.result)
  /\ [][loginPage.loading =>
          /\ loginPage'.submissions = loginPage.submissions
          /\ Len(auth_calls') = Len(auth_calls)]_vars

\* a submission that failed at the network level and came to rest
C30_Witness ==
  /\ loginPage.submissions = 1
  /\ auth_calls # <<>>
  /\ LastCall.result = "Failed to fetch"
  /\ loginPage.error = "Failed to fetch"
  /\ ~loginPage.loading
====
